---- MODULE Spec2Model ----
(***************************************************************************)
(* Model of main.py: the fast-then-slow subdomain enumeration runner.      *)
(*                                                                         *)
(* main() submits run_tool for every tool of the fast phase to a pool of   *)
(* 5 worker threads, waits for all of them, does the same for the slow     *)
(* phase with a pool of 4, drains the output queue into a set of lines     *)
(* that contain the domain, and writes the sorted set to the output file.  *)
(*                                                                         *)
(* Text is modelled as a sequence of character codes (10 = "\n",           *)
(* 32 = " ", 100 = "d", 120 = "x"), so that splitting, trimming, substring *)
(* search and lexicographic sorting are computed, not assumed.             *)
(***************************************************************************)
EXTENDS Integers, Sequences, FiniteSets, TLC

VARIABLES
    domain,       \* args.domain: the target domain (text)
    output_file,  \* args.output: the path, as a sequence of components
    on_path,      \* executables shutil.which resolves on the search path
    pc,           \* position of the main thread
    max_workers,  \* max_workers of the executor in use (0: none)
    workq,        \* the executor's work queue: submitted, not yet started
    tstate,       \* per tool: position of its run_tool call
    outcome,      \* per tool: terminal events run_tool logged, in order
    spawned,      \* per tool: number of subprocesses started for it
    stdout,       \* per tool: bytes its subprocess wrote before it ended
    output_q,     \* output_queue: sequence of <<name, text>>
    all_results,  \* all_results: the set of collected lines
    fs_dirs,      \* directories that exist (each a sequence of components)
    fs_file,      \* content of the file at output_file, or NoFile
    drained,      \* name: the names the loop took off the queue, in order
    tool_list,    \* tool_list: the argument of estimate_total_time
    estimates     \* the values estimate_total_time returned, in order

vars == <<domain, output_file, on_path, pc, max_workers, workq,
          tstate, outcome, spawned, stdout, output_q,
          all_results, fs_dirs, fs_file, drained, tool_list, estimates>>

-----------------------------------------------------------------------------
(* Bounds of the model. *)

\* Longest text a subprocess writes to its standard output.
MaxTextLen == 2

\* Longest tool list estimate_total_time is applied to, the lists of the
\* two phases apart.
MaxListLen == 3

\* Longest output the collection loop is tried on by itself.
MaxOutputLen == 4

-----------------------------------------------------------------------------
(* Text. *)

\* The characters a subprocess may write: "\n", " ", "d", "x".
Alphabet == {10, 32, 100, 120}

\* Characters str.splitlines() takes as line boundaries.
LineBreaks == {10}

\* Characters str.strip() removes from both ends.
Whitespace == {10, 32}

RECURSIVE TextsOfLen(_)
TextsOfLen(n) ==
    IF n = 0 THEN {<<>>}
    ELSE {Append(s, c) : s \in TextsOfLen(n - 1), c \in Alphabet}

\* Every text a subprocess may write before it exits.
Texts == UNION {TextsOfLen(n) : n \in 0..MaxTextLen}

\* The domains the runs are given.
Domains == {<<100>>}

\* What a subprocess may have written when it is cut off or fails: nothing,
\* or a line that names the domain.
PartialTexts == {<<>>} \cup Domains

\* bytes.decode("utf-8", errors="ignore"): the bytes that are no valid
\* UTF-8 are dropped; every character of the alphabet is a valid one.
decode(bytes) == SelectSeq(bytes, LAMBDA c : c < 128)

\* Index of the first line boundary of s, or 0.
FirstBreak(s) ==
    IF \E i \in 1..Len(s) : s[i] \in LineBreaks
    THEN CHOOSE i \in 1..Len(s) :
             /\ s[i] \in LineBreaks
             /\ \A j \in 1..(i - 1) : s[j] \notin LineBreaks
    ELSE 0

\* str.splitlines(): the lines of s, without their line boundaries; a
\* boundary at the very end starts no further line.
RECURSIVE splitlines(_)
splitlines(s) ==
    IF s = <<>> THEN <<>>
    ELSE LET i == FirstBreak(s) IN
         IF i = 0 THEN <<s>>
         ELSE <<SubSeq(s, 1, i - 1)>> \o splitlines(SubSeq(s, i + 1, Len(s)))

\* str.strip(): s without its leading and trailing whitespace.
strip(s) ==
    LET keep == {i \in 1..Len(s) : s[i] \notin Whitespace} IN
    IF keep = {} THEN <<>>
    ELSE LET lo == CHOOSE i \in keep : \A j \in keep : i <= j
             hi == CHOOSE i \in keep : \A j \in keep : j <= i
         IN SubSeq(s, lo, hi)

\* sub in s: sub occurs in s as a contiguous substring.
contains(sub, s) ==
    \E i \in 0..(Len(s) - Len(sub)) : SubSeq(s, i + 1, i + Len(sub)) = sub

\* a < b for two strings: comparison by code point, a proper prefix first.
LexLess(a, b) ==
    \E k \in 1..Len(b) :
        /\ \A j \in 1..(k - 1) : j <= Len(a) /\ a[j] = b[j]
        /\ (k > Len(a) \/ (k <= Len(a) /\ a[k] < b[k]))

\* sorted with the comparison turned round: the strings of S in descending
\* order.
RECURSIVE sortedDescending(_)
sortedDescending(S) ==
    IF S = {} THEN <<>>
    ELSE LET m == CHOOSE x \in S : \A y \in S \ {x} : LexLess(y, x)
         IN <<m>> \o sortedDescending(S \ {m})

\* sorted(S): the strings of S in ascending order.
RECURSIVE sorted(_)
sorted(S) ==
    IF S = {} THEN <<>>
    ELSE LET m == CHOOSE x \in S : \A y \in S \ {x} : LexLess(x, y)
         IN <<m>> \o sorted(S \ {m})

\* KeptLines with the domain sought in the line as read, and the line kept
\* as read: the trimming of line 119 is left out.
KeptLinesUntrimmed(dom, text) ==
    LET lines == splitlines(text) IN
    {lines[i] : i \in {j \in 1..Len(lines) :
                         lines[j] # <<>> /\ contains(dom, lines[j])}}

\* str.lower(): "D" becomes "d".
Lower(s) == [i \in 1..Len(s) |-> IF s[i] = 68 THEN 100 ELSE s[i]]

\* KeptLines with the domain sought whatever the case of the letters.
KeptLinesAnyCase(dom, text) ==
    LET lines == splitlines(text) IN
    {strip(lines[i]) : i \in {j \in 1..Len(lines) :
                                /\ strip(lines[j]) # <<>>
                                /\ contains(Lower(dom), Lower(strip(lines[j])))}}

\* The lines of one tool's output that the collector keeps (lines 118-121).
KeptLines(dom, text) ==
    LET lines == splitlines(text) IN
    {strip(lines[i]) : i \in {j \in 1..Len(lines) :
                                /\ strip(lines[j]) # <<>>
                                /\ contains(dom, strip(lines[j]))}}

\* What the write loop puts in the file: every line followed by "\n".
RECURSIVE FileText(_)
FileText(lines) ==
    IF lines = <<>> THEN <<>>
    ELSE Head(lines) \o <<10>> \o FileText(Tail(lines))

-----------------------------------------------------------------------------
(* The tool registry. *)

\* The names of all_tools, in the order of the list.
all_tools ==
    <<"assetfinder", "subfinder", "findomain", "theHarvester", "amass",
      "sublist3r", "dnsrecon", "dnsenum", "fierce", "gobuster", "massdns">>

fast_tools ==
    {"assetfinder", "subfinder", "findomain", "theHarvester", "amass",
     "sublist3r"}

fast_phase == SelectSeq(all_tools, LAMBDA t : t \in fast_tools)

slow_phase == SelectSeq(all_tools, LAMBDA t : t \notin fast_tools)

Range(seq) == {seq[i] : i \in 1..Len(seq)}

Tools == Range(all_tools)

Fast == Range(fast_phase)

Slow == Range(slow_phase)

\* cmd.split()[0]: the first word of the tool's command line.
Executable(t) == IF t = "sublist3r" THEN "python3" ELSE t

\* The search paths of the runs explored, each given by the executables of
\* the registry it holds: none, one fast tool, one slow tool, a fast and a
\* slow tool, and two slow tools, the second of which has to wait for a
\* free worker.
SearchPaths ==
    {{}, {"assetfinder"}, {"dnsenum"}, {"assetfinder", "massdns"},
     {"dnsenum", "massdns"}}

\* max_workers of the two executors.
FastWorkers == 5

SlowWorkers == 4

-----------------------------------------------------------------------------
(* The estimate of the running time (lines 36-48 and 69-70). *)

\* TOOL_ESTIMATES: the seconds a tool is expected to take.
TOOL_ESTIMATES ==
    ("assetfinder" :> 5) @@ ("subfinder" :> 7) @@ ("findomain" :> 5)
        @@ ("theHarvester" :> 10) @@ ("amass" :> 15) @@ ("sublist3r" :> 10)
        @@ ("dnsrecon" :> 25) @@ ("dnsenum" :> 30) @@ ("fierce" :> 30)
        @@ ("gobuster" :> 35) @@ ("massdns" :> 40)

\* TOOL_ESTIMATES.get(key, default)
get(key, default) ==
    IF key \in DOMAIN TOOL_ESTIMATES THEN TOOL_ESTIMATES[key] ELSE default

\* estimate_total_time with the sum read as a maximum: the time the tools
\* take when all run at once.
RECURSIVE estimateLongest(_)
estimateLongest(l) ==
    IF l = <<>> THEN 0
    ELSE LET rest == estimateLongest(Tail(l))
             this == get(Head(l), 10)
         IN IF this > rest THEN this ELSE rest

\* estimate_total_time with get(tool[0]) and no default: a tool that has
\* no entry counts for nothing.
RECURSIVE estimateKnownOnly(_)
estimateKnownOnly(l) ==
    IF l = <<>> THEN 0
    ELSE get(Head(l), 0) + estimateKnownOnly(Tail(l))

\* estimate_total_time(tool_list): sum() adds the entries from the left,
\* starting from 0. A tool of the list is given by its name, tool[0]; its
\* command line is not read.
RECURSIVE estimate_total_time(_)
estimate_total_time(l) ==
    IF l = <<>> THEN 0
    ELSE estimate_total_time(SubSeq(l, 1, Len(l) - 1)) + get(l[Len(l)], 10)

\* The tool names of the lists the estimate is tried on: three of the
\* registry and one that has no entry in TOOL_ESTIMATES.
ListedNames == {"assetfinder", "subfinder", "massdns", "nmap"}

RECURSIVE ListsOfLen(_)
ListsOfLen(n) ==
    IF n = 0 THEN {<<>>}
    ELSE {Append(l, t) : l \in ListsOfLen(n - 1), t \in ListedNames}

\* The list in the opposite order.
Reverse(l) == [i \in 1..Len(l) |-> l[Len(l) + 1 - i]]

\* The tool lists estimate_total_time is applied to: the two phases, the
\* whole registry in both orders, and every list of up to MaxListLen of
\* the names above.
ToolLists ==
    {fast_phase, slow_phase, all_tools, Reverse(all_tools)}
        \cup UNION {ListsOfLen(n) : n \in 0..MaxListLen}

-----------------------------------------------------------------------------
(* The output path and the file system. *)

NoFile == <<-1>>

\* The paths given with -o: a bare file name, and a file two directories
\* down.
OutputPaths == {<<"subs.txt">>, <<"results", "kali", "subs.txt">>}

\* os.path.dirname(path): the path without its last component.
dirname(path) == SubSeq(path, 1, Len(path) - 1)

\* The directories os.makedirs(d) has to find or make: d and its parents.
Ancestors(d) == {SubSeq(d, 1, n) : n \in 1..Len(d)}

\* The states main may find the file system in: none, some or all of the
\* directories of the path present, and a file at the path (with older
\* content) only where its directory is.
FileSystems(path) ==
    {fs \in {<<Ancestors(SubSeq(path, 1, n)), f>> :
                 n \in 0..(Len(path) - 1), f \in {NoFile, <<120, 10>>}} :
        fs[2] # NoFile => dirname(path) = <<>> \/ dirname(path) \in fs[1]}

-----------------------------------------------------------------------------
(* The state after argument parsing (lines 73-100). *)

Init ==
    /\ domain \in Domains
    /\ output_file \in OutputPaths
    /\ on_path \in SearchPaths
    /\ pc = "estimate_fast"
    /\ max_workers = FastWorkers
    /\ workq = <<>>
    /\ tstate = [t \in Tools |-> "new"]
    /\ outcome = [t \in Tools |-> <<>>]
    /\ spawned = [t \in Tools |-> 0]
    /\ stdout = [t \in Tools |-> <<>>]
    /\ output_q = <<>>
    /\ all_results = {}
    /\ fs_dirs = {}
    /\ fs_file = NoFile
    /\ drained = <<>>
    /\ tool_list = <<>>
    /\ estimates = <<>>

-----------------------------------------------------------------------------
(* The thread pool (concurrent.futures.ThreadPoolExecutor). *)

\* The tools whose run_tool call is executing on a worker thread.
Running == {t \in Tools : tstate[t] \in {"running", "spawned"}}

\* The tools whose run_tool call has ended, by returning or by raising:
\* those whose future is done.
Ended == {t \in Tools : tstate[t] \in {"returned", "raised"}}

\* The phase main is submitting or waiting for.
CurrentPhase ==
    IF pc \in {"submit_fast", "wait_fast"} THEN fast_phase
    ELSE IF pc \in {"submit_slow", "wait_slow"} THEN slow_phase
    ELSE <<>>

\* The tools of a phase not yet submitted, in the order of the phase.
Unsubmitted(phase) == SelectSeq(phase, LAMBDA t : tstate[t] = "new")

\* total_fast_time = estimate_total_time(fast_phase), then the same for
\* the slow phase (lines 102-103).
Estimate ==
    /\ pc \in {"estimate_fast", "estimate_slow"}
    /\ tool_list' = IF pc = "estimate_fast" THEN fast_phase ELSE slow_phase
    /\ estimates' = Append(estimates, estimate_total_time(tool_list'))
    /\ pc' = IF pc = "estimate_fast" THEN "estimate_slow" ELSE "submit_fast"
    /\ UNCHANGED <<domain, output_file, on_path, max_workers, workq, tstate,
                   outcome, spawned, stdout, output_q, all_results, fs_dirs,
                   fs_file, drained>>

\* executor.submit(run_tool, name, cmd, output_queue), lines 107 and 112:
\* the call is put on the work queue of the executor, which runs it on one
\* of its max_workers threads as soon as one is free.
Submit ==
    /\ pc \in {"submit_fast", "submit_slow"}
    /\ LET todo == Unsubmitted(CurrentPhase)
           t == Head(todo)
       IN /\ todo # <<>>
          /\ tstate' = [tstate EXCEPT ![t] = "queued"]
          /\ workq' = Append(workq, t)
          /\ pc' = IF Len(todo) = 1
                   THEN (IF pc = "submit_fast" THEN "wait_fast" ELSE "wait_slow")
                   ELSE pc
    /\ UNCHANGED <<domain, output_file, on_path, max_workers, outcome,
                   spawned, stdout, output_q, all_results, fs_dirs, fs_file>>
    /\ UNCHANGED <<drained, tool_list, estimates>>

\* Start on a pool that counts its busy threads one short: a call is
\* taken while max_workers calls are running.
StartOverCap(t) ==
    /\ workq # <<>>
    /\ t = Head(workq)
    /\ Cardinality(Running) <= max_workers
    /\ workq' = Tail(workq)
    /\ tstate' = [tstate EXCEPT ![t] = "running"]
    /\ UNCHANGED <<domain, output_file, on_path, pc, max_workers,
                   outcome, spawned, stdout, output_q, all_results, fs_dirs,
                   fs_file>>
    /\ UNCHANGED <<drained, tool_list, estimates>>

\* A worker thread takes the oldest call of the work queue and enters
\* run_tool (lines 51-52).
Start(t) ==
    /\ workq # <<>>
    /\ t = Head(workq)
    /\ Cardinality(Running) < max_workers
    /\ workq' = Tail(workq)
    /\ tstate' = [tstate EXCEPT ![t] = "running"]
    /\ UNCHANGED <<domain, output_file, on_path, pc, max_workers,
                   outcome, spawned, stdout, output_q, all_results, fs_dirs,
                   fs_file>>
    /\ UNCHANGED <<drained, tool_list, estimates>>

-----------------------------------------------------------------------------
(* run_tool (lines 50-67). *)

\* shutil.which(cmd.split()[0]) is None, lines 54-56: the tool is logged
\* as not found and run_tool returns.
Skip(t) ==
    /\ tstate[t] = "running"
    /\ Executable(t) \notin on_path
    /\ outcome' = [outcome EXCEPT ![t] = Append(@, "not_found")]
    /\ tstate' = [tstate EXCEPT ![t] = "returned"]
    /\ UNCHANGED <<domain, output_file, on_path, pc, max_workers,
                   workq, spawned, stdout, output_q, all_results, fs_dirs,
                   fs_file>>
    /\ UNCHANGED <<drained, tool_list, estimates>>

\* Spawn without the return of line 56: the command is started whether or
\* not its executable was found.
SpawnUnchecked(t) ==
    /\ tstate[t] = "running"
    /\ spawned' = [spawned EXCEPT ![t] = @ + 1]
    /\ tstate' = [tstate EXCEPT ![t] = "spawned"]
    /\ UNCHANGED <<domain, output_file, on_path, pc, max_workers,
                   workq, outcome, stdout, output_q, all_results, fs_dirs,
                   fs_file>>
    /\ UNCHANGED <<drained, tool_list, estimates>>

\* The executable is on the path: subprocess.check_output starts the
\* command and the thread waits for it (lines 59-60).
Spawn(t) ==
    /\ tstate[t] = "running"
    /\ Executable(t) \in on_path
    /\ spawned' = [spawned EXCEPT ![t] = @ + 1]
    /\ tstate' = [tstate EXCEPT ![t] = "spawned"]
    /\ UNCHANGED <<domain, output_file, on_path, pc, max_workers,
                   workq, outcome, stdout, output_q, all_results, fs_dirs,
                   fs_file>>
    /\ UNCHANGED <<drained, tool_list, estimates>>

\* Finished with a put that is no single step: the thread appends to the
\* queue as it read it some time before, and the entries put since are
\* lost.
FinishedUnsafePut(t) ==
    /\ tstate[t] = "spawned"
    /\ \E bytes \in Texts, n \in 0..Len(output_q) :
          /\ stdout' = [stdout EXCEPT ![t] = bytes]
          /\ output_q' = Append(SubSeq(output_q, 1, n), <<t, decode(bytes)>>)
    /\ outcome' = [outcome EXCEPT ![t] = Append(@, "ok")]
    /\ tstate' = [tstate EXCEPT ![t] = "returned"]
    /\ UNCHANGED <<domain, output_file, on_path, pc, max_workers,
                   workq, spawned, all_results, fs_dirs, fs_file>>
    /\ UNCHANGED <<drained, tool_list, estimates>>

\* The command exits with status 0 within the timeout: its decoded output
\* is put on the queue and the tool is logged as finished (lines 61-63).
Finished(t) ==
    /\ tstate[t] = "spawned"
    /\ \E bytes \in Texts :
          /\ stdout' = [stdout EXCEPT ![t] = bytes]
          /\ output_q' = Append(output_q, <<t, decode(bytes)>>)
    /\ outcome' = [outcome EXCEPT ![t] = Append(@, "ok")]
    /\ tstate' = [tstate EXCEPT ![t] = "returned"]
    /\ UNCHANGED <<domain, output_file, on_path, pc, max_workers,
                   workq, spawned, all_results, fs_dirs, fs_file>>
    /\ UNCHANGED <<drained, tool_list, estimates>>

\* TimedOut with a handler that keeps what the command had written
\* (the output attribute of TimeoutExpired) and puts it on the queue.
TimedOutKeepingOutput(t) ==
    /\ tstate[t] = "spawned"
    /\ \E bytes \in PartialTexts :
          /\ stdout' = [stdout EXCEPT ![t] = bytes]
          /\ output_q' = Append(output_q, <<t, decode(bytes)>>)
    /\ outcome' = [outcome EXCEPT ![t] = Append(@, "timed_out")]
    /\ tstate' = [tstate EXCEPT ![t] = "returned"]
    /\ UNCHANGED <<domain, output_file, on_path, pc, max_workers,
                   workq, spawned, all_results, fs_dirs, fs_file>>
    /\ UNCHANGED <<drained, tool_list, estimates>>

\* TimedOut on an executor that drops its pending calls when one call
\* fails (shutdown(cancel_futures=True)): the calls still queued never run.
TimedOutCancelling(t) ==
    /\ tstate[t] = "spawned"
    /\ \E bytes \in PartialTexts : stdout' = [stdout EXCEPT ![t] = bytes]
    /\ outcome' = [outcome EXCEPT ![t] = Append(@, "timed_out")]
    /\ tstate' = [tstate EXCEPT ![t] = "returned"]
    /\ workq' = <<>>
    /\ UNCHANGED <<domain, output_file, on_path, pc, max_workers,
                   spawned, output_q, all_results, fs_dirs, fs_file>>
    /\ UNCHANGED <<drained, tool_list, estimates>>

\* The command is still running after 180 seconds: TimeoutExpired is
\* caught and logged, what the command had written is dropped (lines
\* 64-65).
TimedOut(t) ==
    /\ tstate[t] = "spawned"
    /\ \E bytes \in PartialTexts : stdout' = [stdout EXCEPT ![t] = bytes]
    /\ outcome' = [outcome EXCEPT ![t] = Append(@, "timed_out")]
    /\ tstate' = [tstate EXCEPT ![t] = "returned"]
    /\ UNCHANGED <<domain, output_file, on_path, pc, max_workers,
                   workq, spawned, output_q, all_results, fs_dirs, fs_file>>
    /\ UNCHANGED <<drained, tool_list, estimates>>

\* Failed without the handler of lines 66-67: the exception leaves
\* run_tool and no outcome is logged.
FailedUncaught(t) ==
    /\ tstate[t] = "spawned"
    /\ \E bytes \in PartialTexts : stdout' = [stdout EXCEPT ![t] = bytes]
    /\ tstate' = [tstate EXCEPT ![t] = "raised"]
    /\ UNCHANGED <<domain, output_file, on_path, pc, max_workers,
                   workq, outcome, spawned, output_q, all_results, fs_dirs,
                   fs_file>>
    /\ UNCHANGED <<drained, tool_list, estimates>>

\* Failed with a retry: the call that failed is put on the work queue
\* again.
FailedRetrying(t) ==
    /\ tstate[t] = "spawned"
    /\ \E bytes \in PartialTexts : stdout' = [stdout EXCEPT ![t] = bytes]
    /\ outcome' = [outcome EXCEPT ![t] = Append(@, "failed")]
    /\ tstate' = [tstate EXCEPT ![t] = "queued"]
    /\ workq' = Append(workq, t)
    /\ UNCHANGED <<domain, output_file, on_path, pc, max_workers,
                   spawned, output_q, all_results, fs_dirs, fs_file>>
    /\ UNCHANGED <<drained, tool_list, estimates>>

\* Failed with a handler that keeps what the command had written (the
\* output attribute of CalledProcessError) and puts it on the queue.
FailedKeepingOutput(t) ==
    /\ tstate[t] = "spawned"
    /\ \E bytes \in PartialTexts :
          /\ stdout' = [stdout EXCEPT ![t] = bytes]
          /\ output_q' = Append(output_q, <<t, decode(bytes)>>)
    /\ outcome' = [outcome EXCEPT ![t] = Append(@, "failed")]
    /\ tstate' = [tstate EXCEPT ![t] = "returned"]
    /\ UNCHANGED <<domain, output_file, on_path, pc, max_workers,
                   workq, spawned, all_results, fs_dirs, fs_file>>
    /\ UNCHANGED <<drained, tool_list, estimates>>

\* The command cannot be started or exits with a non-zero status: the
\* exception is caught and logged, what the command had written is dropped
\* (lines 66-67).
Failed(t) ==
    /\ tstate[t] = "spawned"
    /\ \E bytes \in PartialTexts : stdout' = [stdout EXCEPT ![t] = bytes]
    /\ outcome' = [outcome EXCEPT ![t] = Append(@, "failed")]
    /\ tstate' = [tstate EXCEPT ![t] = "returned"]
    /\ UNCHANGED <<domain, output_file, on_path, pc, max_workers,
                   workq, spawned, output_q, all_results, fs_dirs, fs_file>>
    /\ UNCHANGED <<drained, tool_list, estimates>>

-----------------------------------------------------------------------------
(* main (lines 105-130). *)

\* Barrier as wait(return_when=FIRST_COMPLETED) on a pool that is not
\* joined would behave: main goes on once one call of the phase has ended.
BarrierFirstCompleted ==
    /\ pc \in {"wait_fast", "wait_slow"}
    /\ Range(CurrentPhase) \cap Ended # {}
    /\ max_workers' = IF pc = "wait_fast" THEN SlowWorkers ELSE 0
    /\ pc' = IF pc = "wait_fast" THEN "submit_slow" ELSE "collect"
    /\ UNCHANGED <<domain, output_file, on_path, workq, tstate, outcome,
                   spawned, stdout, output_q, all_results, fs_dirs, fs_file>>
    /\ UNCHANGED <<drained, tool_list, estimates>>

\* concurrent.futures.wait and the end of the with block (lines 108-113):
\* main goes on once every call of the phase has ended; the pool is shut
\* down and the next one, if any, is made.
Barrier ==
    /\ pc \in {"wait_fast", "wait_slow"}
    /\ Range(CurrentPhase) \subseteq Ended
    /\ max_workers' = IF pc = "wait_fast" THEN SlowWorkers ELSE 0
    /\ pc' = IF pc = "wait_fast" THEN "submit_slow" ELSE "collect"
    /\ UNCHANGED <<domain, output_file, on_path, workq, tstate, outcome,
                   spawned, stdout, output_q, all_results, fs_dirs, fs_file>>
    /\ UNCHANGED <<drained, tool_list, estimates>>

\* One turn of the loop of lines 116-121: the oldest entry is taken off
\* the queue and its lines that contain the domain are added to the set.
Collect ==
    /\ pc = "collect"
    /\ output_q # <<>>
    /\ all_results' = all_results \cup KeptLines(domain, Head(output_q)[2])
    /\ output_q' = Tail(output_q)
    /\ drained' = Append(drained, Head(output_q)[1])
    /\ UNCHANGED <<domain, output_file, on_path, pc, max_workers,
                   workq, tstate, outcome, spawned, stdout, fs_dirs, fs_file>>
    /\ UNCHANGED <<tool_list, estimates>>

\* os.makedirs(path, exist_ok=True): the directory and its missing parents
\* are made; the empty path is no directory and raises FileNotFoundError.
makedirs(dirs, d) == dirs \cup Ancestors(d)

\* MakeDirs reached by a loop that does not look at the queue again: main
\* leaves the loop after at most one turn, with entries still on the queue.
MakeDirsAfterOneTurn ==
    /\ pc = "collect"
    /\ output_q = <<>> \/ drained # <<>>
    /\ \E fs \in FileSystems(output_file) :
          /\ fs_file' = fs[2]
          /\ IF dirname(output_file) = <<>>
             THEN /\ pc' = "aborted"
                  /\ fs_dirs' = fs[1]
             ELSE /\ pc' = "write"
                  /\ fs_dirs' = makedirs(fs[1], dirname(output_file))
    /\ UNCHANGED <<domain, output_file, on_path, max_workers,
                   workq, tstate, outcome, spawned, stdout, output_q,
                   all_results>>
    /\ UNCHANGED <<drained, tool_list, estimates>>

\* The queue is empty: os.makedirs(os.path.dirname(output_file),
\* exist_ok=True), line 124. The file system is the environment's: its
\* state is fixed here, where main first touches it.
MakeDirs ==
    /\ pc = "collect"
    /\ output_q = <<>>
    /\ \E fs \in FileSystems(output_file) :
          /\ fs_file' = fs[2]
          /\ IF dirname(output_file) = <<>>
             THEN /\ pc' = "aborted"
                  /\ fs_dirs' = fs[1]
             ELSE /\ pc' = "write"
                  /\ fs_dirs' = makedirs(fs[1], dirname(output_file))
    /\ UNCHANGED <<domain, output_file, on_path, max_workers,
                   workq, tstate, outcome, spawned, stdout, output_q,
                   all_results>>
    /\ UNCHANGED <<drained, tool_list, estimates>>

\* The lines the collector keeps of a text, in the order of the text.
KeptSeq(dom, text) ==
    LET lines == splitlines(text)
        trimmed == [i \in 1..Len(lines) |-> strip(lines[i])]
    IN SelectSeq(trimmed, LAMBDA l : l # <<>> /\ contains(dom, l))

\* The kept lines of the outputs of the tools named, one tool after the
\* other.
RECURSIVE ArrivalLines(_)
ArrivalLines(names) ==
    IF names = <<>> THEN <<>>
    ELSE KeptSeq(domain, decode(stdout[Head(names)]))
             \o ArrivalLines(Tail(names))

\* Write without sorted(): the lines are written in the order in which
\* they came off the queue.
WriteInArrivalOrder ==
    /\ pc = "write"
    /\ fs_file' = FileText(ArrivalLines(drained))
    /\ pc' = "done"
    /\ UNCHANGED <<domain, output_file, on_path, max_workers,
                   workq, tstate, outcome, spawned, stdout, output_q,
                   all_results, fs_dirs>>
    /\ UNCHANGED <<drained, tool_list, estimates>>

\* The file is opened for writing and the sorted lines are written, each
\* followed by a newline (lines 126-130).
Write ==
    /\ pc = "write"
    /\ fs_file' = FileText(sorted(all_results))
    /\ pc' = "done"
    /\ UNCHANGED <<domain, output_file, on_path, max_workers,
                   workq, tstate, outcome, spawned, stdout, output_q,
                   all_results, fs_dirs>>
    /\ UNCHANGED <<drained, tool_list, estimates>>

-----------------------------------------------------------------------------

Next ==
    \/ Estimate
    \/ Submit
    \/ \E t \in Tools : Start(t)
    \/ \E t \in Tools : Skip(t)
    \/ \E t \in Tools : Spawn(t)
    \/ \E t \in Tools : Finished(t)
    \/ \E t \in Tools : TimedOut(t)
    \/ \E t \in Tools : Failed(t)
    \/ Barrier
    \/ Collect
    \/ MakeDirs
    \/ Write

Spec == Init /\ [][Next]_vars

\* estimate_total_time on its own: the state in which it is called with
\* one of the tool lists.
EstInit ==
    /\ pc = "estimate"
    /\ tool_list \in ToolLists
    /\ estimates = <<>>
    /\ domain \in Domains
    /\ output_file = <<"results", "kali", "subs.txt">>
    /\ on_path = {}
    /\ max_workers = 0
    /\ workq = <<>>
    /\ tstate = [t \in Tools |-> "new"]
    /\ outcome = [t \in Tools |-> <<>>]
    /\ spawned = [t \in Tools |-> 0]
    /\ stdout = [t \in Tools |-> <<>>]
    /\ output_q = <<>>
    /\ all_results = {}
    /\ fs_dirs = {}
    /\ fs_file = NoFile
    /\ drained = <<>>

\* The call returns the estimate of its argument (lines 69-70).
EstimateCall ==
    /\ pc = "estimate"
    /\ estimates' = Append(estimates, estimate_total_time(tool_list))
    /\ pc' = "estimated"
    /\ UNCHANGED <<domain, output_file, on_path, max_workers, workq, tstate,
                   outcome, spawned, stdout, output_q, all_results, fs_dirs,
                   fs_file, drained, tool_list>>

EstNext == EstimateCall

EstSpec == EstInit /\ [][EstNext]_vars

\* The runs followed to their end: one tool found in the fast phase, or two
\* in the slow phase, and an output path that names a directory.
FairInit ==
    /\ Init
    /\ on_path \in {{"assetfinder"}, {"dnsenum", "massdns"}}
    /\ dirname(output_file) # <<>>

\* Every thread is scheduled, every subprocess exits or is cut off at the
\* timeout, and main is never held up but at its barriers: a step that can
\* be taken is taken in the end.
FairSpec == FairInit /\ [][Next]_vars /\ WF_vars(Next)

\* The tools whose call is followed when it raises: in each phase one
\* that is on some search path and one that is on none.
MayRaise == {"assetfinder", "amass", "dnsenum", "fierce"}

\* An exception leaves run_tool: it is raised outside the try block (the
\* log call of line 52, the availability check of lines 54-55) or inside
\* a handler (the log calls of lines 65 and 67). The worker thread stores
\* it in the future of the call and takes the next call; no outcome has
\* been logged.
Escape(t) ==
    /\ t \in MayRaise
    /\ tstate[t] \in {"running", "spawned"}
    /\ tstate' = [tstate EXCEPT ![t] = "raised"]
    /\ UNCHANGED <<domain, output_file, on_path, pc, max_workers,
                   workq, outcome, spawned, stdout, output_q, all_results,
                   fs_dirs, fs_file>>
    /\ UNCHANGED <<drained, tool_list, estimates>>

\* The runs in which calls of run_tool may raise: one tool found in the
\* fast phase, or two in the slow phase, and either output path.
EscInit ==
    /\ Init
    /\ on_path \in {{"assetfinder"}, {"dnsenum", "massdns"}}

EscNext == Next \/ \E t \in Tools : Escape(t)

EscapeSpec == EscInit /\ [][EscNext]_vars

\* The same runs with every thread scheduled and main never held up but
\* at its barriers.
FairEscapeSpec ==
    /\ EscInit
    /\ dirname(output_file) # <<>>
    /\ [][EscNext]_vars
    /\ WF_vars(EscNext)

\* The characters of the outputs the collection loop is tried on: those
\* of Alphabet and "D", the domain's letter in the other case.
CaseAlphabet == Alphabet \cup {68}

RECURSIVE CaseTextsOfLen(_)
CaseTextsOfLen(n) ==
    IF n = 0 THEN {<<>>}
    ELSE {Append(s, c) : s \in CaseTextsOfLen(n - 1), c \in CaseAlphabet}

CaseTexts == UNION {CaseTextsOfLen(n) : n \in 0..MaxOutputLen}

\* The collection loop on its own: the state after the second barrier of a
\* run in which assetfinder was the one tool found and ended ok with one
\* of the outputs above.
CollectInit ==
    /\ pc = "collect"
    /\ domain \in Domains
    /\ output_file \in OutputPaths
    /\ on_path = {"assetfinder"}
    /\ max_workers = 0
    /\ workq = <<>>
    /\ tstate = [t \in Tools |-> "returned"]
    /\ outcome = [t \in Tools |->
                     IF t = "assetfinder" THEN <<"ok">> ELSE <<"not_found">>]
    /\ spawned = [t \in Tools |-> IF t = "assetfinder" THEN 1 ELSE 0]
    /\ \E bytes \in CaseTexts :
          /\ stdout = [t \in Tools |->
                          IF t = "assetfinder" THEN bytes ELSE <<>>]
          /\ output_q = << <<"assetfinder", decode(bytes)>> >>
    /\ all_results = {}
    /\ fs_dirs = {}
    /\ fs_file = NoFile
    /\ drained = <<>>
    /\ tool_list = slow_phase
    /\ estimates = <<estimate_total_time(fast_phase),
                      estimate_total_time(slow_phase)>>

CollectNext == Collect \/ MakeDirs \/ Write

CollectSpec == CollectInit /\ [][CollectNext]_vars

-----------------------------------------------------------------------------
(* Vocabulary of the properties. *)

\* The terminal outcomes of a run_tool call.
Outcomes == {"ok", "not_found", "timed_out", "failed"}

\* The tools whose run_tool call has been entered.
Started == {t \in Tools : tstate[t] \notin {"new", "queued"}}

\* The tool's call has ended with outcome o, and no other.
EndedAs(t, o) == tstate[t] = "returned" /\ outcome[t] = <<o>>

\* The tools that have an entry on the output queue.
Enqueued == {output_q[i][1] : i \in 1..Len(output_q)}

\* The trimmed lines of the tool's decoded output that are not empty and
\* contain the domain.
MatchingLines(t) ==
    LET lines == splitlines(decode(stdout[t])) IN
    {l \in {strip(lines[i]) : i \in 1..Len(lines)} :
        l # <<>> /\ contains(domain, l)}

\* The collection loop has ended: all_results is final.
Collected == pc \in {"write", "done", "aborted"}

\* The lines of the output file as a reader of the file finds them.
FileLines == splitlines(fs_file)

-----------------------------------------------------------------------------
(* C1: no slow-phase task starts before every fast-phase task has reached  *)
(* a terminal outcome: whenever the run_tool call of a slow tool has been  *)
(* entered, the call of every fast tool has ended with exactly one of ok,  *)
(* not found, timed out, failed.                                           *)
C1_SlowAfterFast ==
    \A s \in Slow \cap Started :
        \A f \in Fast : \E o \in Outcomes : EndedAs(f, o)

\* A slow tool is running after the fast phase ended with a time-out and
\* tools not found.
C1_Witness ==
    /\ tstate["dnsrecon"] = "running"
    /\ EndedAs("assetfinder", "timed_out")
    /\ EndedAs("amass", "not_found")

(* C2: every line of an ok task's output that, trimmed, is not empty and   *)
(* contains the domain is in the final set and in the written file; a task *)
(* that ended not found, timed out or failed contributes nothing: it never *)
(* has an entry on the queue, and every collected line is a matching line  *)
(* of some ok task.                                                        *)
C2_OkLinesCollected ==
    /\ \A t \in Tools :
          EndedAs(t, "ok") /\ Collected => MatchingLines(t) \subseteq all_results
    /\ \A t \in Tools :
          EndedAs(t, "ok") /\ pc = "done" =>
              MatchingLines(t) \subseteq Range(FileLines)
    /\ \A t \in Tools : ~EndedAs(t, "ok") => t \notin Enqueued
    /\ \A l \in all_results :
          \E t \in Tools : EndedAs(t, "ok") /\ l \in MatchingLines(t)

\* The file is written; an ok task gave the line "xd", and a failed task
\* had written the line "d", which is not in the set.
C2_Witness ==
    /\ pc = "done"
    /\ \E t \in Tools :
          /\ EndedAs(t, "ok")
          /\ stdout[t] = <<120, 100>>
    /\ all_results = {<<120, 100>>}
    /\ \E u \in Tools :
          /\ EndedAs(u, "failed")
          /\ stdout[u] = <<100>>
    /\ \E u \in Tools : EndedAs(u, "not_found")

(* C3: the lines of the written file are in strictly ascending order and   *)
(* none is blank, so a line that two tools produced is in the file once.   *)
C3_FileSorted ==
    pc = "done" =>
        /\ \A i \in 1..Len(FileLines) : strip(FileLines[i]) # <<>>
        /\ \A i \in 1..(Len(FileLines) - 1) :
              LexLess(FileLines[i], FileLines[i + 1])
        /\ \A t \in Tools, u \in Tools :
              EndedAs(t, "ok") /\ EndedAs(u, "ok") =>
                  \A l \in MatchingLines(t) \cap MatchingLines(u) :
                      Cardinality({i \in 1..Len(FileLines) : FileLines[i] = l}) = 1

\* Two ok tasks of different phases: the first gave "xd", the second "d",
\* and the file holds "d" before "xd".
C3_Witness ==
    /\ pc = "done"
    /\ stdout["assetfinder"] = <<120, 100>>
    /\ stdout["massdns"] = <<100, 10>>
    /\ EndedAs("assetfinder", "ok")
    /\ EndedAs("massdns", "ok")
    /\ fs_file = <<100, 10, 120, 100, 10>>

(* C4: when the first word of a tool's command is not on the search path,  *)
(* run_tool ends as not found, starts no subprocess and puts nothing on    *)
(* the output queue.                                                       *)
C4_NotFoundSkips ==
    \A t \in Tools :
        Executable(t) \notin on_path =>
            /\ spawned[t] = 0
            /\ tstate[t] # "spawned"
            /\ t \notin Enqueued
            /\ stdout[t] = <<>>
            /\ tstate[t] = "returned" => outcome[t] = <<"not_found">>

\* A tool that is not on the path has ended while another, on the path,
\* has put its output on the queue.
C4_Witness ==
    /\ EndedAs("dnsrecon", "not_found")
    /\ spawned["dnsrecon"] = 0
    /\ "dnsenum" \in Enqueued
    /\ spawned["dnsenum"] = 1

\* A task of the phase has ended not found, timed out or failed.
Troubled(phase) ==
    \E t \in phase : \E o \in Outcomes \ {"ok"} : EndedAs(t, o)

\* Every task of the phase has been started and has ended with one outcome.
AllEnded(phase) == \A u \in phase : \E o \in Outcomes : EndedAs(u, o)

\* The workers are running or the queue is being filled: nothing has been
\* taken off the output queue yet.
Producing == pc \in {"submit_fast", "wait_fast", "submit_slow", "wait_slow"}

(* C5: a task that ends not found, timed out or failed holds up no sibling *)
(* of its phase: once a task of a phase has ended so, every task of that   *)
(* phase is started and ends with its own outcome, and a task that ends ok *)
(* has its output on the queue, whatever its siblings did.                 *)
C5_SiblingsUnaffected ==
    /\ Troubled(Fast) ~> AllEnded(Fast)
    /\ Troubled(Slow) ~> AllEnded(Slow)
    /\ [](\A u \in Tools : Producing /\ EndedAs(u, "ok") => u \in Enqueued)

\* In the slow phase one tool has timed out, others were not found, and a
\* sibling that started after them has ended ok with its output enqueued.
C5_Witness ==
    /\ EndedAs("dnsenum", "timed_out")
    /\ EndedAs("dnsrecon", "not_found")
    /\ EndedAs("massdns", "ok")
    /\ "massdns" \in Enqueued
    /\ AllEnded(Slow)

(* C6: a task whose subprocess is cut off at the timeout ends as timed out *)
(* and nothing it had written is kept: it has no entry on the output       *)
(* queue, and a line it had written is in the set only if an ok task gave  *)
(* that line.                                                              *)
C6_TimedOutKeepsNothing ==
    \A t \in Tools :
        "timed_out" \in Range(outcome[t]) =>
            /\ EndedAs(t, "timed_out")
            /\ t \notin Enqueued
            /\ \A l \in MatchingLines(t) \cap all_results :
                  \E u \in Tools \ {t} :
                      EndedAs(u, "ok") /\ l \in MatchingLines(u)

\* A tool timed out after writing the line "d"; its sibling ended ok with
\* another line, and the written file holds only the sibling's line.
C6_Witness ==
    /\ pc = "done"
    /\ EndedAs("dnsenum", "timed_out")
    /\ stdout["dnsenum"] = <<100>>
    /\ EndedAs("massdns", "ok")
    /\ all_results = {<<120, 100>>}
    /\ fs_file = <<120, 100, 10>>

\* The run has stopped short: main has come to an end that is not the
\* successful one.
Stopped == pc # "done" /\ ~ENABLED Next

(* C7: whatever the outcomes of the tools, the run finishes both phases,   *)
(* reaches the write step and completes successfully: it never stops       *)
(* before main is done and never ends aborted.                             *)
C7_RunCompletes == ~Stopped /\ pc # "aborted"

(* C8: for every output path, the missing parent directories are made      *)
(* without error and the file is then written over whatever was there:     *)
(* past the collection loop main never aborts, the directories of the path *)
(* exist, and at the end the file holds the sorted lines.                  *)
C8_OutputWritten ==
    Collected =>
        /\ pc \in {"write", "done"}
        /\ Ancestors(dirname(output_file)) \subseteq fs_dirs
        /\ pc = "done" => fs_file = FileText(sorted(all_results))

\* What is left of C7 and C8 when the path names a directory: the run
\* never stops short, the directories are there and the file is written.
CompletesGivenDirectory ==
    dirname(output_file) # <<>> => C7_RunCompletes /\ C8_OutputWritten

\* The number of calls of a phase that are running.
RunningIn(phase) == Cardinality(Running \cap phase)

\* The tool is taken off the work queue in this step.
Starts(t) == tstate[t] = "queued" /\ tstate'[t] = "running"

(* C9: at most 5 tasks run at once in the fast phase and at most 4 in the  *)
(* slow phase; a task beyond the cap waits, and starts only after a task   *)
(* of its phase has ended.                                                 *)
C9_ConcurrencyCap ==
    /\ [](RunningIn(Fast) <= 5 /\ RunningIn(Slow) <= 4)
    /\ [][\A t \in Fast :
             Starts(t) /\ Cardinality(Started \cap Fast) >= 5 =>
                 Ended \cap Fast # {}]_vars
    /\ [][\A t \in Slow :
             Starts(t) /\ Cardinality(Started \cap Slow) >= 4 =>
                 Ended \cap Slow # {}]_vars

\* Five fast tasks are running, none has ended, and the sixth is waiting
\* on the work queue.
C9_Witness ==
    /\ RunningIn(Fast) = 5
    /\ Ended = {}
    /\ workq = <<"sublist3r">>

(* C10: every run_tool call produces exactly one terminal outcome and lets *)
(* no failure escape: a call that has ended has logged one of ok, not      *)
(* found, timed out, failed, a call that has not ended has logged none,    *)
(* and no call ends by raising.                                            *)
C10_OneOutcome ==
    \A t \in Tools :
        /\ tstate[t] \in {"new", "queued", "running", "spawned", "returned"}
        /\ tstate[t] = "returned" => \E o \in Outcomes : outcome[t] = <<o>>
        /\ tstate[t] # "returned" => outcome[t] = <<>>
        /\ spawned[t] <= 1
        /\ outcome[t] = <<"ok">> => spawned[t] = 1

\* All calls of the slow phase have ended: one failed, one timed out, the
\* others were not found.
C10_Witness ==
    /\ EndedAs("dnsenum", "failed")
    /\ EndedAs("massdns", "timed_out")
    /\ EndedAs("fierce", "not_found")
    /\ EndedAs("assetfinder", "not_found")

-----------------------------------------------------------------------------
\* The tools whose call has ended ok.
OkTools == {t \in Tools : EndedAs(t, "ok")}

\* The (tool, output) pairs of the ok tasks.
OkPairs == {<<t, decode(stdout[t])>> : t \in OkTools}

\* The file that belongs to a set of (tool, output) pairs: the kept lines
\* of all the outputs, sorted, each followed by a newline.
FileOf(pairs) ==
    FileText(sorted(UNION {KeptLines(domain, p[2]) : p \in pairs}))

(* C11: the content of the written file is a function of the set of        *)
(* (tool, output) pairs of the ok tasks alone: whatever the order in which *)
(* the tasks ended and their entries were enqueued and taken off the       *)
(* queue, whatever the other tasks had written and whatever the file held  *)
(* before, the file is the one that belongs to that set of pairs.          *)
C11_FileDetermined == pc = "done" => fs_file = FileOf(OkPairs)

\* Two ok tasks of the slow phase: the tool submitted second was enqueued
\* and collected first, and the file is the same as in the other order.
C11_Witness ==
    /\ pc = "done"
    /\ drained = <<"massdns", "dnsenum">>
    /\ OkPairs = {<<"dnsenum", <<120, 100>>>>, <<"massdns", <<100>>>>}
    /\ fs_file = <<100, 10, 120, 100, 10>>

\* The places of the output queue that hold an entry of the tool.
EntriesOf(t) == {i \in 1..Len(output_q) : output_q[i][1] = t}

\* The collection loop is about to take its first entry.
CollectionBegins == pc = "collect" /\ drained = <<>>

(* C12: whatever the interleaving of the tasks, when the collection begins *)
(* the output queue holds exactly one entry for every task that ended ok,  *)
(* the entry is the task's name with its decoded output, and there is no   *)
(* entry of any other task.                                                *)
C12_QueueIntact ==
    CollectionBegins =>
        /\ Len(output_q) = Cardinality(OkTools)
        /\ \A t \in Tools :
              IF EndedAs(t, "ok")
              THEN \E i \in 1..Len(output_q) :
                      /\ EntriesOf(t) = {i}
                      /\ output_q[i] = <<t, decode(stdout[t])>>
              ELSE EntriesOf(t) = {}

\* Two tasks ran at the same time and both ended ok, the one submitted
\* later first; a third had ended before them without an entry.
C12_Witness ==
    /\ CollectionBegins
    /\ output_q = << <<"massdns", <<100, 10>>>>, <<"dnsenum", <<120, 100>>>> >>
    /\ EndedAs("dnsrecon", "not_found")

\* The number of times the tool is on the work queue.
Queued(t) == Cardinality({i \in 1..Len(workq) : workq[i] = t})

\* Both phases are over: main is past the second barrier.
PhasesOver == pc \in {"collect", "write", "done", "aborted"}

(* C13: in one run every tool of the registry is attempted exactly once.   *)
(* Every tool is in exactly one of the two phases and once in its phase;   *)
(* its call is put on the work queue once, and only from the state in      *)
(* which it was never submitted; a call is entered only off the queue; a   *)
(* call that has ended, whatever its outcome, never leaves that state, so  *)
(* a failed or timed-out task is not started again; at most one process is *)
(* started for a tool; and when the phases are over every call has ended.  *)
C13_AttemptedOnce ==
    /\ [](/\ Fast \cap Slow = {}
          /\ Fast \cup Slow = Tools
          /\ Len(fast_phase) = Cardinality(Fast)
          /\ Len(slow_phase) = Cardinality(Slow)
          /\ \A t \in Tools :
                /\ Queued(t) = IF tstate[t] = "queued" THEN 1 ELSE 0
                /\ spawned[t] <= 1
                /\ Len(outcome[t]) <= 1
          /\ PhasesOver => \A t \in Tools : tstate[t] = "returned")
    /\ [][\A t \in Tools :
             /\ tstate[t] # "new" => tstate'[t] # "new"
             /\ tstate[t] # "queued" /\ tstate'[t] = "queued" =>
                   tstate[t] = "new"
             /\ tstate[t] # "running" /\ tstate'[t] = "running" =>
                   tstate[t] = "queued"
             /\ tstate[t] = "returned" =>
                   /\ tstate'[t] = "returned"
                   /\ outcome'[t] = outcome[t]
                   /\ spawned'[t] = spawned[t]]_vars

\* The phases are over; one task had failed and one had timed out, each
\* after its one process, and neither ran again.
C13_Witness ==
    /\ PhasesOver
    /\ EndedAs("dnsenum", "failed")
    /\ EndedAs("massdns", "timed_out")
    /\ spawned["dnsenum"] = 1
    /\ spawned["massdns"] = 1
    /\ workq = <<>>

-----------------------------------------------------------------------------
\* The number of times the name occurs in the list.
Count(n, l) == Cardinality({i \in 1..Len(l) : l[i] = n})

\* The two lists hold the same names the same number of times.
IsPermutation(a, b) ==
    /\ Len(a) = Len(b)
    /\ \A n \in Range(a) \cup Range(b) : Count(n, a) = Count(n, b)

\* The call of estimate_total_time has returned.
Estimated == pc = "estimated" /\ Len(estimates) = 1

(* C14: estimate_total_time is additive and independent of the order: the  *)
(* estimate of a list is the sum of the estimates of its two parts         *)
(* wherever the list is split into parts that share no tool, and every     *)
(* list with the same tools in another order has the same estimate.        *)
C14_EstimateAdditive ==
    Estimated =>
        /\ \A k \in 0..Len(tool_list) :
              LET A == SubSeq(tool_list, 1, k)
                  B == SubSeq(tool_list, k + 1, Len(tool_list))
              IN Range(A) \cap Range(B) = {} =>
                     estimates[1] = estimate_total_time(A)
                                        + estimate_total_time(B)
        /\ \A l \in ToolLists :
              IsPermutation(l, tool_list) =>
                  estimate_total_time(l) = estimates[1]

\* The estimate of three different tools, one of them without an entry:
\* 40 + 10 + 5.
C14_Witness ==
    /\ Estimated
    /\ tool_list = <<"massdns", "nmap", "assetfinder">>
    /\ estimates = <<55>>

\* The sum, over the names, of the entry of the name times its number of
\* occurrences in the list.
RECURSIVE SumByName(_, _)
SumByName(names, l) ==
    IF names = {} THEN 0
    ELSE LET n == CHOOSE x \in names : TRUE
             entry == IF n \in DOMAIN TOOL_ESTIMATES
                      THEN TOOL_ESTIMATES[n]
                      ELSE 10
         IN entry * Count(n, l) + SumByName(names \ {n}, l)

(* C15: estimate_total_time returns the integer sum, over the list, of the *)
(* entries of its tools in TOOL_ESTIMATES, with 10 for every tool that has *)
(* no entry; every tool of the registry has an entry, and it is positive.  *)
C15_EstimateIsSum ==
    /\ \A t \in Tools : t \in DOMAIN TOOL_ESTIMATES /\ TOOL_ESTIMATES[t] > 0
    /\ Estimated =>
          /\ estimates[1] \in Nat
          /\ estimates[1] = SumByName(Range(tool_list), tool_list)

\* A list with a tool that has no entry, twice, and one that has: 10 + 7
\* + 10.
C15_Witness ==
    /\ Estimated
    /\ tool_list = <<"nmap", "subfinder", "nmap">>
    /\ estimates = <<27>>

-----------------------------------------------------------------------------
\* The call of the tool logs the outcome in this step.
Logs(t, o) == outcome[t] = <<>> /\ outcome'[t] = <<o>>

(* C16: a task whose command cannot be started or exits with a non-zero    *)
(* status ends as failed, and what it had written is discarded: the step   *)
(* in which it fails ends the call and leaves the output queue and the     *)
(* set alone; the task never has an entry on the queue; and a line it had  *)
(* written, though it names the domain, is in the set only if an ok task   *)
(* gave that line.                                                         *)
C16_FailedKeepsNothing ==
    /\ [][\A t \in Tools :
             Logs(t, "failed") =>
                 /\ tstate[t] = "spawned" /\ tstate'[t] = "returned"
                 /\ output_q' = output_q
                 /\ all_results' = all_results]_vars
    /\ [](\A t \in Tools :
             "failed" \in Range(outcome[t]) =>
                 /\ EndedAs(t, "failed")
                 /\ EntriesOf(t) = {}
                 /\ t \notin Range(drained)
                 /\ \A l \in MatchingLines(t) \cap all_results :
                       \E u \in Tools \ {t} :
                           EndedAs(u, "ok") /\ l \in MatchingLines(u))

\* The only tool found failed after writing the line "d": the run went on
\* and wrote an empty file.
C16_Witness ==
    /\ pc = "done"
    /\ EndedAs("assetfinder", "failed")
    /\ stdout["assetfinder"] = <<100>>
    /\ MatchingLines("assetfinder") = {<<100>>}
    /\ all_results = {}
    /\ fs_file = <<>>

-----------------------------------------------------------------------------
\* The trimmed lines of the tool's decoded output, kept or not.
TrimmedLines(t) ==
    LET lines == splitlines(decode(stdout[t])) IN
    {strip(lines[i]) : i \in 1..Len(lines)}

(* C17: every member of the set, at the end and at every moment before,    *)
(* is the trimmed form of a line of some ok task's output: it equals its   *)
(* own trimmed form, is not empty and contains the domain letter for       *)
(* letter, in the same case. No other string is ever a member: none with   *)
(* whitespace at either end, not the empty string, none without the        *)
(* domain, none that has the domain in another case only.                  *)
C17_MembersWellFormed ==
    \A l \in all_results :
        /\ strip(l) = l
        /\ l # <<>>
        /\ \E i \in 1..Len(l) : SubSeq(l, i, i + Len(domain) - 1) = domain
        /\ \E t \in OkTools : l \in TrimmedLines(t)

\* The output "D\n d": the first line has the domain in the other case
\* only and is dropped, the second is kept without its leading blank.
C17_Witness ==
    /\ pc = "done"
    /\ stdout["assetfinder"] = <<68, 10, 32, 100>>
    /\ all_results = {<<100>>}
    /\ fs_file = <<100, 10>>

-----------------------------------------------------------------------------
\* main has nothing left to do.
MainEnded == ~ENABLED Next

\* The set has been sorted and written to the file.
Finalized == pc = "done" /\ fs_file = FileText(sorted(all_results))

\* The set changes in a turn of the collection loop only, and only by
\* gaining the lines of the entry taken off the queue: no step of a worker
\* (a step that changes tstate, outcome, spawned, stdout or the work
\* queue) touches it, and no member is ever removed.
ResultSetFrame ==
    /\ all_results \subseteq all_results'
    /\ all_results' # all_results =>
          /\ pc = "collect" /\ pc' = "collect"
          /\ output_q # <<>> /\ output_q' = Tail(output_q)
          /\ <<tstate, outcome, spawned, stdout, workq>>'
                = <<tstate, outcome, spawned, stdout, workq>>

\* The set is written in one step only, the one from write to done, which
\* is taken at most once; from the end of the loop on the set is frozen.
FinalizedAtMostOnce ==
    /\ pc' = "done" /\ pc # "done" => pc = "write"
    /\ pc = "done" => pc' = "done" /\ fs_file' = fs_file
    /\ Collected => all_results' = all_results

(* C18: the set of results is changed by the collection loop of main alone *)
(* and never by a worker; it only grows; and it is finalized, that is      *)
(* sorted and written, exactly once, after the last insertion: at most     *)
(* once, with the set frozen from the end of the loop on, and at least     *)
(* once, main never ending before it has written the set.                  *)
C18_SoleMutator ==
    /\ [][ResultSetFrame]_vars
    /\ [][FinalizedAtMostOnce]_vars
    /\ [](MainEnded => Finalized)

\* What is left of C18 whatever the path: the frame of the set and the one
\* write at most.
ResultSetFrameHolds == [][ResultSetFrame /\ FinalizedAtMostOnce]_vars

\* What is left of the last part of C18 when the path names a directory.
FinalizedGivenDirectory ==
    dirname(output_file) # <<>> /\ MainEnded => Finalized

-----------------------------------------------------------------------------
\* The names of the entries on the output queue, in order.
QueueNames == [i \in 1..Len(output_q) |-> output_q[i][1]]

\* The name occurs exactly once in the list.
Once(n, l) == Count(n, l) = 1

(* C19: the collection starts after the barriers of both phases, so no     *)
(* producer is active while the loop polls the queue: no call is queued    *)
(* or running and nothing is put on the queue. The loop takes every entry  *)
(* exactly once: an entry is either still on the queue or has been taken,  *)
(* never both and never twice, and each turn takes the oldest entry and    *)
(* adds its lines. When the loop has ended the queue is empty and every    *)
(* entry put by a task has been processed.                                 *)
C19_DrainComplete ==
    /\ [](PhasesOver =>
             /\ Running = {} /\ workq = <<>>
             /\ \A t \in Tools : tstate[t] \notin {"new", "queued"}
             /\ Range(drained \o QueueNames) = OkTools
             /\ \A t \in OkTools : Once(t, drained \o QueueNames)
             /\ \A t \in Range(drained) :
                   KeptLines(domain, decode(stdout[t])) \subseteq all_results)
    /\ [](Collected =>
             /\ output_q = <<>>
             /\ Range(drained) = OkTools
             /\ Len(drained) = Cardinality(OkTools))
    /\ [][PhasesOver /\ output_q' # output_q =>
             /\ output_q' = Tail(output_q)
             /\ drained' = Append(drained, Head(output_q)[1])
             /\ all_results' =
                   all_results \cup KeptLines(domain, Head(output_q)[2])]_vars

\* The loop has ended after two turns: both entries were taken, once each,
\* in the order in which they were put, and their lines are in the set.
C19_Witness ==
    /\ pc = "write"
    /\ output_q = <<>>
    /\ drained = <<"dnsenum", "massdns">>
    /\ OkTools = {"dnsenum", "massdns"}
    /\ all_results = {<<100>>, <<120, 100>>}

-----------------------------------------------------------------------------
\* The tools whose call ended by raising: the exception is in the future.
Raised == {t \in Tools : tstate[t] = "raised"}

(* C20: an exception that leaves run_tool is held by the future of the     *)
(* call and is never raised again in main. In a run in which a call has    *)
(* raised, main is not ended by an exception; the barrier of a phase       *)
(* releases as soon as every call of the phase has returned or raised; the *)
(* thread of the call that raised takes the next call off the work queue,  *)
(* so that the remaining tasks and the next phase run, every other call    *)
(* ending with its one outcome; and the run ends only when the output file *)
(* has been written, with the lines of the tasks that ended ok.            *)
C20_EscapeHeld ==
    Raised # {} =>
        /\ pc # "aborted"
        /\ pc \in {"wait_fast", "wait_slow"}
              /\ Range(CurrentPhase) \subseteq Ended => ENABLED Barrier
        /\ workq # <<>> /\ Cardinality(Running) < max_workers =>
              ENABLED Start(Head(workq))
        /\ PhasesOver =>
              \A t \in Tools \ Raised : \E o \in Outcomes : EndedAs(t, o)
        /\ MainEnded => pc = "done" /\ fs_file = FileOf(OkPairs)

\* What is left of C20 when the path names a directory.
EscapeHeldGivenDirectory == dirname(output_file) # <<>> => C20_EscapeHeld

\* A call has raised in each phase, a task of the slow phase ended ok
\* after that, and the file holds its line.
EscapeHeldCase ==
    /\ pc = "done"
    /\ Raised = {"amass", "dnsenum"}
    /\ EndedAs("massdns", "ok")
    /\ EndedAs("gobuster", "not_found")
    /\ fs_file = <<100, 10>>

\* Once a call has raised, the run still comes to its end with the file
\* written.
EscapedRunCompletes == (Raised # {}) ~> (pc = "done")

====
